---- MODULE Spec2Model ----
(***************************************************************************)
(* A model of backend/app/main.py: the /process request of the photo       *)
(* scrubber.  One request is followed from the form parameters to the      *)
(* response: decode, scrub_text (OCR hits -> mask -> inpaint),             *)
(* scrub_people (face pass, optional body pass, each hit blurred by        *)
(* _blur_region) and PNG encoding.                                         *)
(*                                                                         *)
(* A pixel buffer is kept as its decoded source plus the ordered list of    *)
(* writes (inpaint over a mask, blur over a rectangle) applied to it; the   *)
(* value of a pixel is its decoded value together with the writes that      *)
(* covered it (PixelAt).  cv2's blur and inpaint kernels are library code:  *)
(* the model records where and with which parameters they write.            *)
(* Lengths are pixels, confidences are Tesseract percentages, HOG weights   *)
(* are kept in hundredths, the 0.75 scale is the fraction 3/4.              *)
(***************************************************************************)
EXTENDS Integers, Sequences, FiniteSets, TLC

VARIABLES
    pc,        \* position of the request in process / process_image / scrub_*
    req,       \* the form parameters and the uploaded file
    opts,      \* Options built by process
    bgr,       \* process_image's working buffer
    data,      \* scrub_text: the hits returned by pytesseract.image_to_data
    mask,      \* scrub_text: the rectangles painted into the mask
    out,       \* scrub_people: the copy being blurred
    cascade,   \* scrub_people: whether the Haar cascade file was loaded
    faces,     \* scrub_people: detectMultiScale's face rectangles
    fi,        \* scrub_people: index of the next face to blur
    scale,     \* scrub_people: <<numerator, denominator>> of the body-pass scale
    rects,     \* scrub_people: the HOG rectangles with their weights
    bi,        \* scrub_people: index of the next body hit
    call,      \* the arguments of the latest _blur_region call
    calls,     \* the external calls made so far, in order
    response   \* what the endpoint answered

vars == <<pc, req, opts, bgr, data, mask, out, cascade, faces, fi, scale,
          rects, bi, call, calls, response>>

----------------------------------------------------------------------------
(* Bounds of the model *)

MaxTextHits == 2
MaxFaces == 2
MaxBodies == 2

(* Constants of the program *)

MinKernel == 3
MaxStrength == 151
MinConf == 60
MinPad == 2
MinWeightPct == 50
DownscaleAbove == 900
InpaintRadius == 3

----------------------------------------------------------------------------
(* Arithmetic *)

Max(a, b) == IF a >= b THEN a ELSE b

Min(a, b) == IF a <= b THEN a ELSE b

\* Python int(n / d) for d > 0: truncation toward zero.
Trunc(n, d) == IF n >= 0 THEN n \div d ELSE -((-n) \div d)

\* Python k | 1 on an int of any sign: the lowest bit is set.
BitOr1(k) == IF k % 2 = 0 THEN k + 1 ELSE k

----------------------------------------------------------------------------
(* Images and buffers *)

Rect(x1, y1, x2, y2) == [x1 |-> x1, y1 |-> y1, x2 |-> x2, y2 |-> y2]

IsEmptyRect(r) == r.x2 <= r.x1 \/ r.y2 <= r.y1

InRect(r, px, py) == r.x1 <= px /\ px < r.x2 /\ r.y1 <= py /\ py < r.y2

NoImage == [id |-> 0, mode |-> "NONE", W |-> 0, H |-> 0]

NoBuffer == [W |-> 0, H |-> 0, img |-> NoImage, writes |-> <<>>]

\* The uploaded picture's pixel as PIL holds it: one luminance for mode "L",
\* three channels for "RGB".
PilPixel(img, px, py) ==
    IF img.mode = "L"
    THEN <<(px + 2 * py + img.id) % 4>>
    ELSE <<(px + img.id) % 4, (py + 2 * img.id) % 4, (px + py + 1) % 4>>

\* pil_img.convert("RGB") followed by cv2.COLOR_RGB2BGR.
BgrPixel(img, px, py) ==
    LET p == PilPixel(img, px, py)
        rgb == IF img.mode # "RGB" THEN <<p[1], p[1], p[1]>> ELSE p
    IN  <<rgb[3], rgb[2], rgb[1]>>

PilToBgr(img) == [W |-> img.W, H |-> img.H, img |-> img, writes |-> <<>>]

Covers(w, px, py) == \E i \in 1..Len(w.rects) : InRect(w.rects[i], px, py)

\* The value of a pixel of a buffer: its decoded value and, in order, the
\* writes that produced it.
PixelAt(buf, px, py) ==
    [base |-> BgrPixel(buf.img, px, py),
     hist |-> SelectSeq(buf.writes, LAMBDA w : Covers(w, px, py))]

----------------------------------------------------------------------------
(* _blur_region *)

\* A clamp whose far edges are taken inclusive.
ClampRectInclusive(W, H, x, y, w, h) ==
    Rect(Max(0, x), Max(0, y), Min(W, x + w + 1), Min(H, y + h + 1))

ClampRect(W, H, x, y, w, h) ==
    Rect(Max(0, x), Max(0, y), Min(W, x + w), Min(H, y + h))

KernelSize(k) == Max(MinKernel, BitOr1(k))

BlurRegion(buf, x, y, w, h, k) ==
    LET r == ClampRect(buf.W, buf.H, x, y, w, h)
    IN  IF IsEmptyRect(r)
        THEN buf
        ELSE [buf EXCEPT !.writes =
                 Append(@, [kind |-> "blur", rects |-> <<r>>, k |-> KernelSize(k)])]

BlurCall(x, y, w, h, k) == [x |-> x, y |-> y, w |-> w, h |-> h, k |-> k]

NoCall == BlurCall(0, 0, 0, 0, 0)

----------------------------------------------------------------------------
(* scrub_text *)

BlankTexts == {"", " ", "  "}

\* (data["text"][i] or "").strip()
Strip(t) == IF t \in BlankTexts THEN "" ELSE t

\* float(conf_str), -1.0 when the conversion raises.
ParseConf(c) == IF c.num THEN c.val ELSE -1

\* A filter that forgets the blank-text test.
SurvivesBlank(hit) == ~(ParseConf(hit.conf) < MinConf)

Survives(hit) == ~(Strip(hit.text) = "" \/ ParseConf(hit.conf) < MinConf)

\* max(2, int(min(w, h) * 0.15)); int(m * 0.15) = (15 * m) div 100 for the
\* lengths of an image (checked against Python floats for m < 5000).
TextPad(w, h) == Max(MinPad, Trunc(Min(w, h) * 15, 100))

\* cv2.rectangle(mask, p1, p2, 255, thickness=-1): the filled rectangle holds
\* both corners, whichever their order, and is clipped to the canvas.
FilledRect(W, H, ax, ay, bx, by) ==
    Rect(Max(0, Min(ax, bx)), Max(0, Min(ay, by)),
         Min(W, Max(ax, bx) + 1), Min(H, Max(ay, by) + 1))

PaintHit(W, H, hit) ==
    LET pad == TextPad(hit.width, hit.height)
        x2 == Max(0, hit.left - pad)
        y2 == Max(0, hit.top - pad)
        w2 == Min(W - x2, hit.width + 2 * pad)
        h2 == Min(H - y2, hit.height + 2 * pad)
    IN  FilledRect(W, H, x2, y2, x2 + w2, y2 + h2)

\* The loop over the hits: one painted rectangle per surviving hit.
BuildMask(W, H, hits) ==
    LET kept == SelectSeq(hits, Survives)
    IN  [i \in 1..Len(kept) |-> PaintHit(W, H, kept[i])]

\* mask.max() == 0
MaskIsZero(m) == \A i \in 1..Len(m) : IsEmptyRect(m[i])

InMask(m, px, py) == \E i \in 1..Len(m) : InRect(m[i], px, py)

\* cv2.inpaint(bgr, mask, inpaintRadius=3, flags=cv2.INPAINT_TELEA): a new
\* buffer whose masked pixels are synthesised.
Inpaint(buf, m) ==
    [buf EXCEPT !.writes =
        Append(@, [kind |-> "inpaint", rects |-> m, k |-> InpaintRadius])]

----------------------------------------------------------------------------
(* scrub_people *)

\* A pad of half the width.
FacePadHalf(w) == Trunc(w, 2)

\* int(0.25 * w)
FacePad(w) == Trunc(w, 4)

FaceBlurCall(f, k) ==
    LET pad == FacePad(f.w)
    IN  BlurCall(f.x - pad, f.y - pad, f.w + 2 * pad, f.h + 2 * pad, k)

FullScale == <<1, 1>>

DownScale == <<3, 4>>

\* A threshold that downscales a picture of exactly 900 px too.
BodyScaleAtThreshold(buf) ==
    IF Max(buf.H, buf.W) >= DownscaleAbove THEN DownScale ELSE FullScale

\* scale = 0.75 if max(out.shape[:2]) > 900 else 1.0
BodyScale(buf) == IF Max(buf.H, buf.W) > DownscaleAbove THEN DownScale ELSE FullScale

\* int(v / scale) on each of x, y, w, h when scale != 1.0
RemapBody(r, sc) ==
    IF sc # FullScale
    THEN [x |-> Trunc(r.x * sc[2], sc[1]), y |-> Trunc(r.y * sc[2], sc[1]),
          w |-> Trunc(r.w * sc[2], sc[1]), h |-> Trunc(r.h * sc[2], sc[1])]
    ELSE [x |-> r.x, y |-> r.y, w |-> r.w, h |-> r.h]

BodyKept(hit) == ~(hit.wt < MinWeightPct)

BodyBlurCall(hit, sc, k) ==
    LET r == RemapBody(hit, sc)
    IN  BlurCall(r.x, r.y, r.w, r.h, k)

ApplyBlur(buf, c) == BlurRegion(buf, c.x, c.y, c.w, c.h, c.k)

----------------------------------------------------------------------------
(* process_image and process: order of the stages *)

\* A clamp without its upper limit.
ClampStrengthNoCeiling(b) == Max(MinKernel, b)

ClampStrength(b) == Max(MinKernel, Min(MaxStrength, b))

MakeOptions(r) ==
    [blur_people |-> r.blur_people, remove_text |-> r.remove_text,
     blur_strength |-> ClampStrength(r.blur_strength),
     detect_bodies |-> r.detect_bodies]

AfterText(o) == IF o.blur_people THEN "people" ELSE "encode"

\* Dispatches that ignore remove_text: always on, always off.
AfterDecodeAlwaysText(o) == "ocr"

AfterDecodeSkipText(o) == AfterText(o)

AfterDecode(o) == IF o.remove_text THEN "ocr" ELSE AfterText(o)

AfterFaces(o) == IF o.detect_bodies THEN "hog" ELSE "people_return"

\* A handler that swallows the exception and encodes the buffer so far.
OnErrorSwallowed == "encode"

\* No handler catches an exception of a stage: it leaves process.
OnError == "error"

Called(op, ok) == [op |-> op, ok |-> ok]

NoResponse == [status |-> "none", image |-> NoBuffer]

----------------------------------------------------------------------------
(* The inputs of a request and the answers of the detectors *)

Image(id, mode, W, H) == [id |-> id, mode |-> mode, W |-> W, H |-> H]

\* Uploads: decodable pictures (one not above, one at and one above the
\* body-pass threshold), a payload Image.open rejects and one whose pixel
\* data cannot be loaded.
Files ==
    { Image(1, "RGB", 64, 48), Image(2, "L", 200, 200),
      Image(3, "RGB", 900, 600), Image(4, "RGB", 1200, 800),
      Image(5, "CORRUPT", 0, 0), Image(6, "TRUNCATED", 64, 48) }

Strengths == {-7, 0, 1, 2, 3, 4, 31, 150, 151, 152, 200}

DefaultStrength == 31

\* The requests explored: the form's default strength with every picture and
\* every flag; every other strength with the smallest picture and text
\* removal off (scrub_text never reads blur_strength).
Requests ==
    { r \in [file : Files, blur_people : BOOLEAN, remove_text : BOOLEAN,
             blur_strength : Strengths, detect_bodies : BOOLEAN] :
        r.blur_strength = DefaultStrength \/ (r.file.id = 1 /\ ~r.remove_text) }

NoOptions ==
    [blur_people |-> FALSE, remove_text |-> FALSE, blur_strength |-> 0,
     detect_bodies |-> FALSE]

Num(v) == [num |-> TRUE, val |-> v]

NotNum == [num |-> FALSE, val |-> 0]

TextHit(t, c, x, y, w, h) ==
    [text |-> t, conf |-> c, left |-> x, top |-> y, width |-> w, height |-> h]

\* Word boxes Tesseract can report on a W x H picture: inside the picture,
\* with a confidence on either side of the threshold, blank text, or a
\* confidence that is no number.
TextPool(W, H) ==
    << TextHit("Hi", Num(95), 10, 10, 20, 20),
       TextHit("No", Num(60), 1, 1, 12, 8),
       TextHit("lo", Num(59), 30, 20, 20, 10),
       TextHit(" ", Num(96), 5, 30, 10, 10),
       TextHit("??", NotNum, 40, 5, 10, 10),
       TextHit("Zz", Num(88), W - 14, H - 10, 14, 10) >>

Box(x, y, w, h) == [x |-> x, y |-> y, w |-> w, h |-> h]

Fits(W, H, b) == 0 <= b.x /\ 0 <= b.y /\ b.x + b.w <= W /\ b.y + b.h <= H

\* Face windows inside the picture, none smaller than minSize=(24, 24).
FacePool(W, H) ==
    SelectSeq(<< Box(10, 10, 40, 40), Box(2, 3, 27, 27),
                 Box(W - 24, H - 24, 24, 24), Box(20, 12, 29, 33) >>,
              LAMBDA b : Fits(W, H, b))

BodyHit(x, y, w, h, wt) == [x |-> x, y |-> y, w |-> w, h |-> h, wt |-> wt]

\* HOG windows in the coordinates of the picture handed to the detector;
\* padding lets a window start left of or above it.
BodyPool ==
    << BodyHit(30, 30, 50, 50, 80), BodyHit(-4, 5, 64, 128, 50),
       BodyHit(8, 8, 64, 128, 49) >>

\* The sub-lists of pool with at most n entries, in the pool's order.
SubLists(pool, n) ==
    { SelectSeq(pool, LAMBDA e : \E i \in S : pool[i] = e) :
        S \in { T \in SUBSET (1..Len(pool)) : Cardinality(T) <= n } }

----------------------------------------------------------------------------
(* The request, step by step *)

Init ==
    /\ pc = "request"
    /\ req \in Requests
    /\ opts = NoOptions
    /\ bgr = NoBuffer
    /\ data = <<>>
    /\ mask = <<>>
    /\ out = NoBuffer
    /\ cascade = FALSE
    /\ faces = <<>>
    /\ fi = 1
    /\ scale = FullScale
    /\ rects = <<>>
    /\ bi = 1
    /\ call = NoCall
    /\ calls = <<>>
    /\ response = NoResponse

\* process: clamp blur_strength, Image.open, build Options.
Process ==
    /\ pc = "request"
    /\ LET ok == req.file.mode # "CORRUPT"
       IN  /\ calls' = Append(calls, Called("open", ok))
           /\ opts' = IF ok THEN MakeOptions(req) ELSE opts
           /\ pc' = IF ok THEN "decode" ELSE OnError
    /\ UNCHANGED <<req, bgr, data, mask, out, cascade, faces, fi, scale, rects,
                   bi, call, response>>

\* process_image: bgr = _pil_to_bgr(pil_img)
Decode ==
    /\ pc = "decode"
    /\ LET ok == req.file.mode # "TRUNCATED"
       IN  /\ calls' = Append(calls, Called("decode", ok))
           /\ bgr' = IF ok THEN PilToBgr(req.file) ELSE bgr
           /\ pc' = IF ok THEN AfterDecode(opts) ELSE OnError
    /\ UNCHANGED <<req, opts, data, mask, out, cascade, faces, fi, scale, rects,
                   bi, call, response>>

\* scrub_text: pytesseract.image_to_data, then an all-zero mask.
TextDetect ==
    /\ pc = "ocr"
    /\ \/ /\ calls' = Append(calls, Called("ocr", FALSE))
          /\ pc' = OnError
          /\ UNCHANGED <<data, mask>>
       \/ \E hits \in SubLists(TextPool(bgr.W, bgr.H), MaxTextHits) :
            /\ calls' = Append(calls, Called("ocr", TRUE))
            /\ data' = hits
            /\ mask' = <<>>
            /\ pc' = "mask"
    /\ UNCHANGED <<req, opts, bgr, out, cascade, faces, fi, scale, rects, bi,
                   call, response>>

\* scrub_text: the loop that filters the hits and paints the mask.
TextMask ==
    /\ pc = "mask"
    /\ mask' = BuildMask(bgr.W, bgr.H, data)
    /\ pc' = "inpaint"
    /\ UNCHANGED <<req, opts, bgr, data, out, cascade, faces, fi, scale, rects,
                   bi, call, calls, response>>

\* scrub_text: if mask.max() == 0: return bgr
TextUnchanged ==
    /\ pc = "inpaint"
    /\ MaskIsZero(mask)
    /\ pc' = AfterText(opts)
    /\ UNCHANGED <<req, opts, bgr, data, mask, out, cascade, faces, fi, scale,
                   rects, bi, call, calls, response>>

\* scrub_text: cv2.inpaint, whose result replaces process_image's bgr.
TextInpaint ==
    /\ pc = "inpaint"
    /\ ~MaskIsZero(mask)
    /\ \/ /\ calls' = Append(calls, Called("inpaint", FALSE))
          /\ pc' = OnError
          /\ UNCHANGED bgr
       \/ /\ calls' = Append(calls, Called("inpaint", TRUE))
          /\ bgr' = Inpaint(bgr, mask)
          /\ pc' = AfterText(opts)
    /\ UNCHANGED <<req, opts, data, mask, out, cascade, faces, fi, scale, rects,
                   bi, call, response>>

\* scrub_people: out = bgr.copy(); the cascade is built from its file, which
\* leaves an empty classifier when the file cannot be read.
PeopleStart ==
    /\ pc = "people"
    /\ out' = bgr
    /\ \E loaded \in BOOLEAN :
         /\ cascade' = loaded
         /\ calls' = Append(calls, Called("cascade", loaded))
    /\ pc' = "face_detect"
    /\ UNCHANGED <<req, opts, bgr, data, mask, faces, fi, scale, rects, bi, call,
                   response>>

\* scrub_people: face_cascade.detectMultiScale, which raises on an empty
\* classifier.
FaceDetect ==
    /\ pc = "face_detect"
    /\ \/ /\ calls' = Append(calls, Called("face_detect", FALSE))
          /\ pc' = OnError
          /\ UNCHANGED <<faces, fi>>
       \/ /\ cascade
          /\ \E hits \in SubLists(FacePool(out.W, out.H), MaxFaces) :
               /\ faces' = hits
               /\ fi' = 1
          /\ calls' = Append(calls, Called("face_detect", TRUE))
          /\ pc' = "face_loop"
    /\ UNCHANGED <<req, opts, bgr, data, mask, out, cascade, scale, rects, bi,
                   call, response>>

\* scrub_people: one iteration of the loop over the faces.
FaceBlur ==
    /\ pc = "face_loop"
    /\ fi <= Len(faces)
    /\ LET c == FaceBlurCall(faces[fi], opts.blur_strength)
       IN  /\ call' = c
           /\ out' = ApplyBlur(out, c)
    /\ calls' = Append(calls, Called("blur", TRUE))
    /\ fi' = fi + 1
    /\ UNCHANGED <<pc, req, opts, bgr, data, mask, cascade, faces, scale, rects,
                   bi, response>>

\* scrub_people: the face loop is over; if detect_bodies: ...
FaceDone ==
    /\ pc = "face_loop"
    /\ fi > Len(faces)
    /\ pc' = AfterFaces(opts)
    /\ UNCHANGED <<req, opts, bgr, data, mask, out, cascade, faces, fi, scale,
                   rects, bi, call, calls, response>>

\* scrub_people: build the HOG descriptor with its people detector, pick the
\* scale.
HogLoad ==
    /\ pc = "hog"
    /\ \/ /\ calls' = Append(calls, Called("hog", FALSE))
          /\ pc' = OnError
          /\ UNCHANGED scale
       \/ /\ calls' = Append(calls, Called("hog", TRUE))
          /\ scale' = BodyScale(out)
          /\ pc' = "hog_detect"
    /\ UNCHANGED <<req, opts, bgr, data, mask, out, cascade, faces, fi, rects, bi,
                   call, response>>

\* scrub_people: hog.detectMultiScale on the (possibly resized) picture.
HogDetect ==
    /\ pc = "hog_detect"
    /\ \/ /\ calls' = Append(calls, Called("hog_detect", FALSE))
          /\ pc' = OnError
          /\ UNCHANGED <<rects, bi>>
       \/ /\ \E hits \in SubLists(BodyPool, MaxBodies) :
               /\ rects' = hits
               /\ bi' = 1
          /\ calls' = Append(calls, Called("hog_detect", TRUE))
          /\ pc' = "body_loop"
    /\ UNCHANGED <<req, opts, bgr, data, mask, out, cascade, faces, fi, scale,
                   call, response>>

\* scrub_people: one iteration of the loop over the HOG hits.
BodyBlur ==
    /\ pc = "body_loop"
    /\ bi <= Len(rects)
    /\ IF BodyKept(rects[bi])
       THEN LET c == BodyBlurCall(rects[bi], scale, opts.blur_strength)
            IN  /\ call' = c
                /\ out' = ApplyBlur(out, c)
                /\ calls' = Append(calls, Called("blur", TRUE))
       ELSE UNCHANGED <<call, out, calls>>
    /\ bi' = bi + 1
    /\ UNCHANGED <<pc, req, opts, bgr, data, mask, cascade, faces, fi, scale,
                   rects, response>>

BodyDone ==
    /\ pc = "body_loop"
    /\ bi > Len(rects)
    /\ pc' = "people_return"
    /\ UNCHANGED <<req, opts, bgr, data, mask, out, cascade, faces, fi, scale,
                   rects, bi, call, calls, response>>

\* scrub_people returns out, which replaces process_image's bgr.
PeopleReturn ==
    /\ pc = "people_return"
    /\ bgr' = out
    /\ pc' = "encode"
    /\ UNCHANGED <<req, opts, data, mask, out, cascade, faces, fi, scale, rects,
                   bi, call, calls, response>>

\* process: _bgr_to_png_bytes and the response.
Encode ==
    /\ pc = "encode"
    /\ \/ /\ calls' = Append(calls, Called("encode", FALSE))
          /\ pc' = OnError
          /\ UNCHANGED response
       \/ /\ calls' = Append(calls, Called("encode", TRUE))
          /\ response' = [status |-> "ok", image |-> bgr]
          /\ pc' = "done"
    /\ UNCHANGED <<req, opts, bgr, data, mask, out, cascade, faces, fi, scale,
                   rects, bi, call>>

Next ==
    \/ Process
    \/ Decode
    \/ TextDetect
    \/ TextMask
    \/ TextUnchanged
    \/ TextInpaint
    \/ PeopleStart
    \/ FaceDetect
    \/ FaceBlur
    \/ FaceDone
    \/ HogLoad
    \/ HogDetect
    \/ BodyBlur
    \/ BodyDone
    \/ PeopleReturn
    \/ Encode

Spec == Init /\ [][Next]_vars

----------------------------------------------------------------------------
(* _blur_region on its own: any buffer, any integer rectangle and kernel *)

Coords == {-5, -1, 0, 3, 7, 8, 12}

Extents == {-3, 0, 1, 4, 20}

Kernels == {-2, 0, 4, 31}

SmallBuffers ==
    { PilToBgr(Image(1, "RGB", 8, 6)),
      Inpaint(PilToBgr(Image(1, "RGB", 8, 6)), <<Rect(1, 1, 5, 4)>>),
      BlurRegion(PilToBgr(Image(2, "L", 6, 8)), 2, 2, 3, 3, 5) }

InitBlurRegion ==
    /\ pc = "blur_region"
    /\ bgr \in SmallBuffers
    /\ out = bgr
    /\ call \in { BlurCall(x, y, w, h, k) :
                    x \in Coords, y \in Coords, w \in Extents, h \in Extents,
                    k \in Kernels }
    /\ req = [file |-> bgr.img, blur_people |-> TRUE, remove_text |-> FALSE,
              blur_strength |-> call.k, detect_bodies |-> FALSE]
    /\ opts = NoOptions
    /\ data = <<>>
    /\ mask = <<>>
    /\ cascade = FALSE
    /\ faces = <<>>
    /\ fi = 1
    /\ scale = FullScale
    /\ rects = <<>>
    /\ bi = 1
    /\ calls = <<>>
    /\ response = NoResponse

\* _blur_region(out, x, y, w, h, k)
BlurRegionStep ==
    /\ pc = "blur_region"
    /\ out' = ApplyBlur(out, call)
    /\ calls' = Append(calls, Called("blur", TRUE))
    /\ pc' = "blur_region_done"
    /\ UNCHANGED <<req, opts, bgr, data, mask, cascade, faces, fi, scale, rects,
                   bi, call, response>>

SpecBlurRegion == InitBlurRegion /\ [][BlurRegionStep]_vars

----------------------------------------------------------------------------
(* Vocabulary of the properties *)

TextOps == {"ocr", "inpaint"}

PersonOps == {"cascade", "face_detect", "blur", "hog", "hog_detect"}

\* Positions inside scrub_people, after out = bgr.copy().
PeoplePcs ==
    {"face_detect", "face_loop", "hog", "hog_detect", "body_loop", "people_return"}

\* Positions at which process_image's bgr is what scrub_text returned.
TextReturned ==
    /\ opts.remove_text
    /\ \/ pc \in PeoplePcs \cup {"people"}
       \/ pc \in {"encode", "done"} /\ ~opts.blur_people

HasCall(op, ok) == \E i \in 1..Len(calls) : calls[i] = Called(op, ok)

Invoked(op) == \E i \in 1..Len(calls) : calls[i].op = op

CountCalls(op) == Cardinality({i \in 1..Len(calls) : calls[i].op = op})

RectsOf(buf) ==
    UNION { {buf.writes[i].rects[j] : j \in 1..Len(buf.writes[i].rects)} :
              i \in 1..Len(buf.writes) }

\* A pixel set built from rectangles is constant between two consecutive
\* edges, so one pixel on each side of every edge, with the corners of the
\* picture, stands for every pixel of the picture.
Around(es, n) ==
    {c \in es \cup {e - 1 : e \in es} \cup {0, n - 1} : 0 <= c /\ c < n}

Probes(W, H, rs) ==
    Around({r.x1 : r \in rs} \cup {r.x2 : r \in rs}, W)
        \X Around({r.y1 : r \in rs} \cup {r.y2 : r \in rs}, H)

DecodedPixel(px, py) == [base |-> BgrPixel(req.file, px, py), hist |-> <<>>]

SeqToSet(q) == {q[i] : i \in 1..Len(q)}

----------------------------------------------------------------------------
(* C1 *)

\* C1: with remove_text and blur_people both off, whatever blur_strength and
\* detect_bodies are, process_image returns a buffer whose every pixel is
\* the decoded input's pixel, and neither the text detector, the inpainter,
\* a person detector nor the region blur has been invoked.
C1_FlagsOffIdentity ==
    (pc \in {"encode", "done"} /\ ~req.remove_text /\ ~req.blur_people) =>
        /\ bgr.W = req.file.W /\ bgr.H = req.file.H
        /\ \A p \in Probes(bgr.W, bgr.H, RectsOf(bgr)) :
              PixelAt(bgr, p[1], p[2]) = DecodedPixel(p[1], p[2])
        /\ \A i \in 1..Len(calls) : calls[i].op \notin TextOps \cup PersonOps
        /\ pc = "done" => response = [status |-> "ok", image |-> bgr]

C1_Witness ==
    /\ pc = "done"
    /\ ~req.remove_text /\ ~req.blur_people
    /\ req.detect_bodies
    /\ req.blur_strength = 200
    /\ response.status = "ok"

----------------------------------------------------------------------------
(* C2 *)

\* What the claim counts as a completed stage.
TextStageDone ==
    /\ HasCall("ocr", TRUE)
    /\ \A i \in 1..Len(data) :
          Survives(data[i]) =>
              \E j \in 1..Len(mask) : mask[j] = PaintHit(req.file.W, req.file.H, data[i])
    /\ MaskIsZero(mask) \/ HasCall("inpaint", TRUE)
    /\ HasCall("inpaint", TRUE) =>
          /\ Len(response.image.writes) >= 1
          /\ response.image.writes[1].kind = "inpaint"
          /\ response.image.writes[1].rects = mask

PeopleStageDone ==
    /\ HasCall("face_detect", TRUE)
    /\ fi = Len(faces) + 1
    /\ opts.detect_bodies => HasCall("hog_detect", TRUE) /\ bi = Len(rects) + 1
    /\ CountCalls("blur") =
          Len(faces) + Cardinality({i \in 1..Len(rects) : rects[i].wt >= MinWeightPct})
    /\ response.image = out

\* C2: no partial-redaction result is ever returned: once any step of the
\* request has failed (open/decode, text detection, inpainting, detector
\* loading, face or body detection, PNG encoding) no image is returned and
\* the request does not complete, a raised failure puts it in error, and an
\* image is returned only after every stage enabled in the options ran to
\* completion.
C2_NoPartialResult ==
    /\ (\E i \in 1..Len(calls) : ~calls[i].ok) =>
          /\ response = NoResponse
          /\ pc # "done"
          /\ pc = "error" \/ (pc = "face_detect" /\ ~cascade)
    /\ pc = "error" => response = NoResponse
    /\ response.status = "ok" =>
          /\ pc = "done"
          /\ \A i \in 1..Len(calls) : calls[i].ok
          /\ req.remove_text => TextStageDone
          /\ req.blur_people => PeopleStageDone

C2_Witness ==
    /\ pc = "error"
    /\ HasCall("hog_detect", FALSE)
    /\ req.remove_text
    /\ Len(out.writes) >= 2
    /\ response = NoResponse

----------------------------------------------------------------------------
(* C3 *)

\* What scrub_text returns for the hits it was given.
TextResult ==
    IF MaskIsZero(mask) THEN PilToBgr(req.file) ELSE Inpaint(PilToBgr(req.file), mask)

\* C3: with remove_text and blur_people both on, the text redactor has run
\* to completion before the person redactor starts, the person redactor
\* works on the buffer the text redactor returned (every masked pixel of its
\* working copy was inpainted before anything else was written to it), and
\* no person-detection or blur call precedes a text-detection or inpainting
\* call.
C3_TextBeforePeople ==
    /\ \A i, j \in 1..Len(calls) :
          (i < j /\ calls[i].op \in PersonOps) => calls[j].op \notin TextOps
    /\ (req.remove_text /\ req.blur_people /\ pc \in PeoplePcs) =>
          /\ HasCall("ocr", TRUE)
          /\ mask = BuildMask(req.file.W, req.file.H, data)
          /\ ~MaskIsZero(mask) => HasCall("inpaint", TRUE)
          /\ bgr = TextResult
          /\ Len(out.writes) >= Len(bgr.writes)
          /\ SubSeq(out.writes, 1, Len(bgr.writes)) = bgr.writes
          /\ \A i \in (Len(bgr.writes) + 1)..Len(out.writes) :
                out.writes[i].kind = "blur"
          /\ \A p \in Probes(out.W, out.H, RectsOf(out)) :
                InMask(mask, p[1], p[2]) =>
                    Head(PixelAt(out, p[1], p[2]).hist).kind = "inpaint"

C3_Witness ==
    /\ pc = "body_loop"
    /\ bi = 2
    /\ req.remove_text /\ req.blur_people
    /\ Len(out.writes) = 3
    /\ out.writes[1].kind = "inpaint"
    /\ out.writes[3].kind = "blur"

----------------------------------------------------------------------------
(* C4 *)

\* The claim's filter: non-blank text and a numeric confidence >= 60.
ClaimKeeps(hit) == hit.text \notin BlankTexts /\ hit.conf.num /\ hit.conf.val >= 60

----------------------------------------------------------------------------
(* C5 *)

\* n / d rounded to the nearest integer, halves away from zero (d > 0).
ClaimRoundDiv(n, d) ==
    IF n >= 0 THEN (2 * n + d) \div (2 * d) ELSE -((2 * (-n) + d) \div (2 * d))

\* n / d truncated toward zero (d > 0).
ClaimTruncDiv(n, d) == IF n >= 0 THEN n \div d ELSE -((-n) \div d)

\* The claim's padded, clamped box of a hit: margin max(2, round(0.15 min(w,h))).
ClaimTextBox(W, H, hit) ==
    LET m == LET r == ClaimRoundDiv(15 * (IF hit.width <= hit.height
                                          THEN hit.width ELSE hit.height), 100)
             IN  IF r >= 2 THEN r ELSE 2
        lo(v) == IF v >= 0 THEN v ELSE 0
        hi(v, n) == IF v <= n THEN v ELSE n
    IN  Rect(lo(hit.left - m), lo(hit.top - m),
             hi(hit.left + hit.width + m, W), hi(hit.top + hit.height + m, H))

ClaimTextBoxes ==
    { ClaimTextBox(req.file.W, req.file.H, data[i]) :
        i \in {j \in 1..Len(data) : ClaimKeeps(data[j])} }

\* C5: every pixel outside the union of the surviving hits' padded, clamped
\* boxes (margin m = max(2, round(0.15 * min(w, h))), columns
\* max(0, x - m) <= px < min(W, x + w + m), rows likewise) is not marked in
\* the mask handed to the inpainter and is unchanged by the text redactor.
C5_OutsideBoxesUnchanged ==
    HasCall("ocr", TRUE) =>
        \A p \in Probes(req.file.W, req.file.H, SeqToSet(mask) \cup ClaimTextBoxes) :
            (~\E b \in ClaimTextBoxes : InRect(b, p[1], p[2])) =>
                /\ ~InMask(mask, p[1], p[2])
                /\ TextReturned => PixelAt(bgr, p[1], p[2]) = DecodedPixel(p[1], p[2])

----------------------------------------------------------------------------
(* C6 *)

\* The claim's normalisation: clamp to [3, 151], then force odd.
ClaimKernel(b) ==
    LET c == IF b < 3 THEN 3 ELSE IF b > 151 THEN 151 ELSE b
    IN  IF c % 2 = 0 THEN c + 1 ELSE c

BlurWrites(buf) ==
    {buf.writes[i] : i \in {j \in 1..Len(buf.writes) : buf.writes[j].kind = "blur"}}

\* C6: whatever integer blur_strength the request carries, every blur of the
\* request uses a Gaussian kernel size that is odd, at least 3 and at most
\* 151: the input clamped to [3, 151] and then forced odd.
C6_KernelOddInRange ==
    \A w \in BlurWrites(bgr) \cup BlurWrites(out) \cup BlurWrites(response.image) :
        /\ w.k % 2 = 1
        /\ 3 <= w.k /\ w.k <= 151
        /\ w.k = ClaimKernel(req.blur_strength)

C6_Witness ==
    /\ pc = "done"
    /\ req.blur_strength = 152
    /\ \E w \in BlurWrites(response.image) : w.k = 151

----------------------------------------------------------------------------
(* C7 *)

\* The claim's clamped rectangle of a _blur_region call on a W x H buffer.
ClaimBlurRect(W, H, c) ==
    Rect(IF c.x >= 0 THEN c.x ELSE 0, IF c.y >= 0 THEN c.y ELSE 0,
         IF c.x + c.w <= W THEN c.x + c.w ELSE W,
         IF c.y + c.h <= H THEN c.y + c.h ELSE H)

\* C7: for any integers x, y, w, h, k, _blur_region changes no pixel outside
\* [max(0,x), min(W,x+w)) x [max(0,y), min(H,y+h)); when that rectangle is
\* empty the buffer is left entirely unchanged.  (bgr holds the buffer as it
\* was before the call, out the buffer after it.)
C7_BlurRegionFrame ==
    pc = "blur_region_done" =>
        LET r == ClaimBlurRect(bgr.W, bgr.H, call)
        IN  /\ out.W = bgr.W /\ out.H = bgr.H /\ out.img = bgr.img
            /\ \A px \in 0..(bgr.W - 1), py \in 0..(bgr.H - 1) :
                  (~InRect(r, px, py) \/ IsEmptyRect(r)) =>
                      PixelAt(out, px, py) = PixelAt(bgr, px, py)
            /\ IsEmptyRect(r) => out = bgr

C7_Witness ==
    /\ pc = "blur_region_done"
    /\ call.x = -1 /\ call.w = 4 /\ call.y = 3 /\ call.h = 20
    /\ Len(bgr.writes) = 1
    /\ PixelAt(out, 2, 5) # PixelAt(bgr, 2, 5)
    /\ PixelAt(out, 3, 5) = PixelAt(bgr, 3, 5)

----------------------------------------------------------------------------
(* C8 *)

\* The rectangle a face hit is blurred over when it is expanded by pad on
\* all four sides and clamped to the W x H buffer.
PaddedFaceRect(W, H, f, pad) ==
    Rect(IF f.x - pad >= 0 THEN f.x - pad ELSE 0,
         IF f.y - pad >= 0 THEN f.y - pad ELSE 0,
         IF f.x + f.w + pad <= W THEN f.x + f.w + pad ELSE W,
         IF f.y + f.h + pad <= H THEN f.y + f.h + pad ELSE H)

\* The write the j-th face of the list produced in scrub_people's copy.
FaceWrite(j) == out.writes[Len(bgr.writes) + j]

FacesBlurredExactly(padOf(_)) ==
    (pc \in PeoplePcs \ {"face_detect"}) =>
        /\ Len(out.writes) >= Len(bgr.writes) + fi - 1
        /\ \A j \in 1..(fi - 1) :
              LET r == PaddedFaceRect(out.W, out.H, faces[j], padOf(faces[j].w))
              IN  /\ FaceWrite(j).kind = "blur"
                  /\ FaceWrite(j).rects = <<r>>
                  /\ \A p \in Probes(out.W, out.H, {r} \cup SeqToSet(FaceWrite(j).rects)) :
                        Covers(FaceWrite(j), p[1], p[2]) <=> InRect(r, p[1], p[2])

ClaimRoundQuarter(w) == ClaimRoundDiv(w, 4)

ClaimFloorQuarter(w) == w \div 4

\* C8 as claimed: every face hit (x, y, w, h) with w, h >= 24 is blurred over
\* exactly the hit expanded by pad = round(0.25 * w) on all four sides and
\* clamped to the buffer.
C8_FaceRectRounded == FacesBlurredExactly(ClaimRoundQuarter)

\* C8 as amended: every face hit (x, y, w, h) with w, h >= 24 is blurred over
\* exactly the hit expanded by pad = floor(0.25 * w) on all four sides and
\* clamped to the buffer; the hit (10, 10, 40, 40) on a 200 x 200 buffer is
\* blurred over exactly (0, 0)-(60, 60).
C8_FaceRectFloored ==
    /\ FacesBlurredExactly(ClaimFloorQuarter)
    /\ (pc = "face_loop" /\ fi > 1 /\ faces[fi - 1] = Box(10, 10, 40, 40)
            /\ out.W = 200 /\ out.H = 200) =>
          out.writes[Len(out.writes)].rects = <<Rect(0, 0, 60, 60)>>

C8_Witness ==
    /\ pc = "face_loop"
    /\ fi = 3
    /\ out.W = 200 /\ out.H = 200
    /\ faces = <<Box(10, 10, 40, 40), Box(2, 3, 27, 27)>>
    /\ FaceWrite(1).rects = <<Rect(0, 0, 60, 60)>>
    /\ FaceWrite(2).rects = <<Rect(0, 0, 35, 36)>>

----------------------------------------------------------------------------
(* C9 *)

\* The body pass has just handled a hit whose weight is at least 0.5.
BodyJustBlurred == pc = "body_loop" /\ bi > 1 /\ rects[bi - 1].wt >= 50

BodyBlurredAs(div(_, _)) ==
    BodyJustBlurred =>
        LET hit == rects[bi - 1]
            big == out.W > 900 \/ out.H > 900
            at(v) == IF big THEN div(4 * v, 3) ELSE v
            r == ClaimBlurRect(out.W, out.H,
                               BlurCall(at(hit.x), at(hit.y), at(hit.w), at(hit.h), 0))
        IN  /\ call.x = at(hit.x) /\ call.y = at(hit.y)
            /\ call.w = at(hit.w) /\ call.h = at(hit.h)
            /\ ~IsEmptyRect(r) =>
                  /\ out.writes[Len(out.writes)].kind = "blur"
                  /\ out.writes[Len(out.writes)].rects = <<r>>

\* C9 as claimed: when the longer side exceeds 900 px every surviving body
\* hit (weight >= 0.5) is blurred at x/0.75, y/0.75, w/0.75, h/0.75 each
\* rounded to the nearest integer, so (30,30,50,50) maps to (40,40,67,67);
\* at or below 900 px the detector's coordinates are used unchanged.
C9_BodyRemapRounded == BodyBlurredAs(ClaimRoundDiv)

\* C9 as amended: when the longer side exceeds 900 px every surviving body
\* hit (weight >= 0.5) is blurred at x/0.75, y/0.75, w/0.75, h/0.75 each
\* truncated toward zero, so (30,30,50,50) maps to (40,40,66,66); at or below
\* 900 px the detector's coordinates are used unchanged.
C9_BodyRemapTruncated ==
    /\ BodyBlurredAs(ClaimTruncDiv)
    /\ (BodyJustBlurred /\ rects[bi - 1] = BodyHit(30, 30, 50, 50, 80)
            /\ out.W > 900) =>
          call = BlurCall(40, 40, 66, 66, opts.blur_strength)

C9_Witness ==
    /\ pc = "body_loop"
    /\ bi = 3
    /\ out.W = 1200
    /\ rects = <<BodyHit(30, 30, 50, 50, 80), BodyHit(-4, 5, 64, 128, 50)>>
    /\ call = BlurCall(-5, 6, 85, 170, opts.blur_strength)
    /\ out.writes[Len(out.writes)].rects = <<Rect(0, 6, 80, 176)>>
    /\ out.writes[Len(out.writes) - 1].rects = <<Rect(40, 40, 106, 106)>>

----------------------------------------------------------------------------
(* C10 *)

\* C10: a detector that cannot be loaded (the face cascade, or the body
\* detector when detect_bodies is set) fails the person redactor before any
\* region blur has touched its working buffer: no blur call precedes a
\* detector-load failure, and at such a failure the working copy holds no
\* write that the buffer it was copied from lacks.
C10_LoadFailsBeforeBlur ==
    /\ \A i, j \in 1..Len(calls) :
          (i < j /\ calls[i].op = "blur") =>
              ~(calls[j].op \in {"cascade", "hog"} /\ ~calls[j].ok)
    /\ (HasCall("cascade", FALSE) \/ HasCall("hog", FALSE)) => out.writes = bgr.writes

====
